---- MODULE Spec2Model ----
(***************************************************************************)
(* Rule matching and configuration normalisation of the request router     *)
(* (src/main.py, src/db.py).                                               *)
(*                                                                         *)
(* Python/JSON values are tagged records.  A Python str is a sequence of   *)
(* one-character strings, so that split, lower, replace and the substring  *)
(* test are computed.  A Python dict is a sequence of <<key, value>> pairs *)
(* in insertion order with unique keys.  Python's None is one value: the   *)
(* code uses it both for JSON null and for "nothing found".                *)
(***************************************************************************)
EXTENDS Integers, Sequences, FiniteSets, TLC

VARIABLES db, FILTER_CONFIG, NORMALIZED_RULES, pc, call,
          log_level,   \* LOG_LEVEL of the process environment, read at import
          req,         \* the /forward request in progress, where it stands
          published    \* history: the normalize result last bound to NORMALIZED_RULES

vars == <<db, FILTER_CONFIG, NORMALIZED_RULES, pc, call, log_level, req, published>>

(***************************************************************************)
(* Values                                                                  *)
(***************************************************************************)
None == [t |-> "none"]
B(b) == [t |-> "bool", b |-> b]
I(n) == [t |-> "int", n |-> n]
S(s) == [t |-> "str", s |-> s]
L(items) == [t |-> "list", items |-> items]
D(pairs) == [t |-> "dict", pairs |-> pairs]

IsStr(v) == v.t = "str"
IsList(v) == v.t = "list"
IsDict(v) == v.t = "dict"

\* bool(v): Python truthiness, as used by `or`, `and`, `if x`
Truthy(v) ==
  CASE v.t = "none" -> FALSE
    [] v.t = "bool" -> v.b
    [] v.t = "int" -> v.n # 0
    [] v.t = "str" -> Len(v.s) > 0
    [] v.t = "list" -> Len(v.items) > 0
    [] v.t = "dict" -> Len(v.pairs) > 0

\* a or b
PyOr(a, b) == IF Truthy(a) THEN a ELSE b

\* key in d
Has(d, key) == \E i \in 1..Len(d.pairs) : d.pairs[i][1] = key

\* d[key]
Item(d, key) == d.pairs[CHOOSE i \in 1..Len(d.pairs) : d.pairs[i][1] = key][2]

\* d.get(key)
Get(d, key) == IF Has(d, key) THEN Item(d, key) ELSE None

\* d[key] = v  (an existing key keeps its position, a new key goes last)
SetItem(d, key, v) ==
  IF Has(d, key)
  THEN D([i \in 1..Len(d.pairs) |->
            IF d.pairs[i][1] = key THEN <<key, v>> ELSE d.pairs[i]])
  ELSE D(Append(d.pairs, <<key, v>>))

\* the number a bool or int compares as (bool is a subclass of int)
NumOf(v) == IF v.t = "bool" THEN (IF v.b THEN 1 ELSE 0) ELSE v.n

IsNum(v) == v.t \in {"bool", "int"}

RECURSIVE PyEq(_, _)
\* a == b
PyEq(a, b) ==
  CASE IsNum(a) /\ IsNum(b) -> NumOf(a) = NumOf(b)
    [] a.t = "none" /\ b.t = "none" -> TRUE
    [] a.t = "str" /\ b.t = "str" -> a.s = b.s
    [] a.t = "list" /\ b.t = "list" ->
         /\ Len(a.items) = Len(b.items)
         /\ \A i \in 1..Len(a.items) : PyEq(a.items[i], b.items[i])
    [] a.t = "dict" /\ b.t = "dict" ->
         /\ Len(a.pairs) = Len(b.pairs)
         /\ \A i \in 1..Len(a.pairs) :
              /\ Has(b, a.pairs[i][1])
              /\ PyEq(a.pairs[i][2], Item(b, a.pairs[i][1]))
    [] OTHER -> FALSE

\* sub in s, for two str
IsSubstring(sub, s) ==
  \E i \in 0..(Len(s) - Len(sub)) :
    \A j \in 1..Len(sub) : s[i + j] = sub[j]

Returned(v) == [raised |-> FALSE, v |-> v]
Raised == [raised |-> TRUE, v |-> FALSE]

\* expected in actual: TypeError for an actual that is no container, for a
\* non-str tested against a str, and for an unhashable tested against a dict
PyIn(expected, actual) ==
  CASE actual.t = "list" ->
         Returned(\E i \in 1..Len(actual.items) : PyEq(actual.items[i], expected))
    [] actual.t = "str" ->
         IF expected.t = "str"
         THEN Returned(IsSubstring(expected.s, actual.s))
         ELSE Raised
    [] actual.t = "dict" ->
         IF expected.t \in {"list", "dict"}
         THEN Raised
         ELSE Returned(\E i \in 1..Len(actual.pairs) :
                         PyEq(S(actual.pairs[i][1]), expected))
    [] OTHER -> Raised

UpperChars == <<"A","B","C","D","E","F","G","H","I","J","K","L","M",
                "N","O","P","Q","R","S","T","U","V","W","X","Y","Z">>
LowerChars == <<"a","b","c","d","e","f","g","h","i","j","k","l","m",
                "n","o","p","q","r","s","t","u","v","w","x","y","z">>

LowerChar(c) ==
  IF \E i \in 1..Len(UpperChars) : UpperChars[i] = c
  THEN LowerChars[CHOOSE i \in 1..Len(UpperChars) : UpperChars[i] = c]
  ELSE c

\* s.lower()
Lower(s) == [i \in 1..Len(s) |-> LowerChar(s[i])]

\* s.replace(old, new) for single characters
Replace(s, old, new) == [i \in 1..Len(s) |-> IF s[i] = old THEN new ELSE s[i]]

RECURSIVE SplitFrom(_, _, _, _)
SplitFrom(s, sep, i, cur) ==
  IF i > Len(s) THEN <<cur>>
  ELSE IF s[i] = sep THEN <<cur>> \o SplitFrom(s, sep, i + 1, <<>>)
  ELSE SplitFrom(s, sep, i + 1, Append(cur, s[i]))

\* s.split(sep) for a single-character separator
Split(s, sep) == SplitFrom(s, sep, 1, <<>>)

(***************************************************************************)
(* Field resolver: _eval_rule._get_field                                   *)
(***************************************************************************)
RECURSIVE _find_recursive(_, _)
RECURSIVE FindInChildren(_, _, _)

\* the two `for` loops of _find_recursive over children: the first result
\* that is not None wins
FindInChildren(children, i, target_key) ==
  IF i > Len(children) THEN None
  ELSE LET result == _find_recursive(children[i], target_key)
       IN IF result # None THEN result
          ELSE FindInChildren(children, i + 1, target_key)

_find_recursive(obj, target_key) ==
  IF IsDict(obj)
  THEN IF Has(obj, target_key) THEN Item(obj, target_key)
       ELSE FindInChildren([i \in 1..Len(obj.pairs) |-> obj.pairs[i][2]], 1, target_key)
  ELSE IF IsList(obj) THEN FindInChildren(obj.items, 1, target_key)
  ELSE None

RECURSIVE Descend(_, _, _)

\* the loop with `return cur` where the code has `return None`
Descend_partial(cur, parts, i) ==
  IF i > Len(parts) THEN cur
  ELSE IF ~IsDict(cur) \/ ~Has(cur, parts[i]) THEN cur
  ELSE Descend(Item(cur, parts[i]), parts, i + 1)

\* the `for p in parts` loop of _get_field
Descend(cur, parts, i) ==
  IF i > Len(parts) THEN cur
  ELSE IF ~IsDict(cur) \/ ~Has(cur, parts[i]) THEN None
  ELSE Descend(Item(cur, parts[i]), parts, i + 1)

\* fld is None or a str value
_get_field(d, fld) ==
  IF fld = None THEN None
  ELSE IF \E i \in 1..Len(fld.s) : fld.s[i] = "."
  THEN Descend(d, Split(fld.s, "."), 1)
  ELSE _find_recursive(d, fld.s)

(***************************************************************************)
(* Rule evaluator and matcher: _eval_rule, find_matching_filter            *)
(***************************************************************************)
k_field == <<"f","i","e","l","d">>
k_op == <<"o","p">>
k_value == <<"v","a","l","u","e">>
k_location == <<"l","o","c","a","t","i","o","n">>
k_api_endpoint == <<"a","p","i","_","e","n","d","p","o","i","n","t">>
k_endpoint == <<"e","n","d","p","o","i","n","t">>
k_target == <<"t","a","r","g","e","t">>

s_eq == <<"e","q">>
s_neq == <<"n","e","q">>
s_in == <<"i","n">>
s_nin == <<"n","i","n">>

\* the comparison with the guard of `in` repeated for `nin`
\* (actual is not None and expected not in actual)
Compare_nin_guard_as_in(op, expected, actual) ==
  CASE op = s_eq -> Returned(PyEq(actual, expected))
    [] op = s_neq -> Returned(~PyEq(actual, expected))
    [] op = s_in ->
         IF actual = None THEN Returned(FALSE) ELSE PyIn(expected, actual)
    [] op = s_nin ->
         IF actual = None THEN Returned(FALSE)
         ELSE LET r == PyIn(expected, actual)
              IN IF r.raised THEN Raised ELSE Returned(~r.v)
    [] OTHER -> Returned(FALSE)

\* the body of the try block of _eval_rule: the comparison, which raises
\* where Python's `in` raises
Compare(op, expected, actual) ==
  CASE op = s_eq -> Returned(PyEq(actual, expected))
    [] op = s_neq -> Returned(~PyEq(actual, expected))
    [] op = s_in ->
         IF actual = None THEN Returned(FALSE) ELSE PyIn(expected, actual)
    [] op = s_nin ->
         IF actual = None THEN Returned(TRUE)
         ELSE LET r == PyIn(expected, actual)
              IN IF r.raised THEN Raised ELSE Returned(~r.v)
    [] OTHER -> Returned(FALSE)

\* (rule.get("op") or "").lower(), for an op that is a str or missing
RuleOp(rule) == Lower(PyOr(Get(rule, k_op), S(<<>>)).s)

\* _eval_rule without its `except Exception: return False`
_eval_rule_no_except(rule, data) ==
  Compare(RuleOp(rule), Get(rule, k_value), _get_field(data, Get(rule, k_field)))

\* the outcome of _eval_rule(rule, data) for a rule that is a dict
_eval_rule(rule, data) ==
  LET field == Get(rule, k_field)
      op == RuleOp(rule)
      expected == Get(rule, k_value)
      actual == _get_field(data, field)
      result == Compare(op, expected, actual)
  IN IF result.raised THEN Returned(FALSE) ELSE result

http_localhost_83_data ==
  <<"h","t","t","p",":","/","/","l","o","c","a","l","h","o","s","t",":","8","3",
    "/","d","a","t","a">>

Rule(field, op, value, location, api_endpoint) ==
  D(<< <<k_field, field>>, <<k_op, op>>, <<k_value, value>>,
       <<k_location, location>>, <<k_api_endpoint, api_endpoint>> >>)

DEFAULT_CONFIG ==
  L(<< Rule(S(<<"u","s","e","r">>), S(s_eq), I(1), None,
            S(http_localhost_83_data)),
       Rule(S(<<"u","s","e","r">>), S(s_eq), I(2), None,
            S(http_localhost_83_data \o <<"2">>)),
       Rule(S(<<"b","r","a","n","c","h">>), S(s_eq),
            S(<<"k","i","n","g","s","t","o","n">>), None,
            S(http_localhost_83_data \o <<"3">>)) >>)

RECURSIVE FirstMatch(_, _, _)

\* the loop with a rule that has no usable destination passed over
FirstMatch_skip_empty(filters, i, data) ==
  IF i > Len(filters) THEN Returned(None)
  ELSE LET r == _eval_rule(filters[i], data)
       IN IF r.raised THEN r
          ELSE IF r.v /\ Truthy(Get(filters[i], k_api_endpoint))
          THEN Returned(filters[i])
          ELSE FirstMatch(filters, i + 1, data)

\* the `for rule in filters` loop of find_matching_filter
FirstMatch(filters, i, data) ==
  IF i > Len(filters) THEN Returned(None)
  ELSE LET r == _eval_rule(filters[i], data)
       IN IF r.raised THEN r
          ELSE IF r.v THEN Returned(filters[i])
          ELSE FirstMatch(filters, i + 1, data)

\* filters is None or a list value
find_matching_filter(data, filters) ==
  LET fs == IF filters # None THEN filters ELSE DEFAULT_CONFIG
  IN FirstMatch(fs.items, 1, data)

(***************************************************************************)
(* Config normaliser: _normalize_filters                                   *)
(***************************************************************************)
\* the rule dict built for a legacy entry, in the key order of the literal
LegacyRule(field, op, value, api_endpoint, location) ==
  D(<< <<k_field, field>>, <<k_op, op>>, <<k_value, value>>,
       <<k_api_endpoint, api_endpoint>>, <<k_location, location>> >>)

\* the entry's rule with the op taken as written, not lower-cased
LegacyEntry_no_lower(field, match_value, dest) ==
  IF IsStr(dest)
  THEN Returned(<<LegacyRule(S(field), S(s_eq), S(match_value), dest, None)>>)
  ELSE IF IsDict(dest)
  THEN LET op == PyOr(Get(dest, k_op), S(s_eq))
       IN IF ~IsStr(op) THEN Raised
          ELSE Returned(<<LegacyRule(
                 S(field), op, S(match_value),
                 PyOr(PyOr(Get(dest, k_api_endpoint), Get(dest, k_endpoint)),
                      Get(dest, k_target)),
                 PyOr(Get(dest, k_location), None))>>)
  ELSE Returned(<<>>)

\* the body of `for match_value, dest in mapping.items()`: the rules appended
\* for one entry; .lower() of an op that is no str raises AttributeError
LegacyEntry(field, match_value, dest) ==
  IF IsStr(dest)
  THEN Returned(<<LegacyRule(S(field), S(s_eq), S(match_value), dest, None)>>)
  ELSE IF IsDict(dest)
  THEN LET op == PyOr(Get(dest, k_op), S(s_eq))
       IN IF ~IsStr(op) THEN Raised
          ELSE Returned(<<LegacyRule(
                 S(field), S(Lower(op.s)), S(match_value),
                 PyOr(PyOr(Get(dest, k_api_endpoint), Get(dest, k_endpoint)),
                      Get(dest, k_target)),
                 PyOr(Get(dest, k_location), None))>>)
  ELSE Returned(<<>>)

RECURSIVE LegacyMapping(_, _, _)
\* `for match_value, dest in mapping.items()` from entry i on
LegacyMapping(field, pairs, i) ==
  IF i > Len(pairs) THEN Returned(<<>>)
  ELSE LET e == LegacyEntry(field, pairs[i][1], pairs[i][2])
       IN IF e.raised THEN Raised
          ELSE LET rest == LegacyMapping(field, pairs, i + 1)
               IN IF rest.raised THEN Raised ELSE Returned(e.v \o rest.v)

RECURSIVE LegacyConfig(_, _)
\* `for field, mapping in raw_cfg.items()` from field i on
LegacyConfig(pairs, i) ==
  IF i > Len(pairs) THEN Returned(<<>>)
  ELSE LET m == IF IsDict(pairs[i][2])
                THEN LegacyMapping(pairs[i][1], pairs[i][2].pairs, 1)
                ELSE Returned(<<>>)
       IN IF m.raised THEN Raised
          ELSE LET rest == LegacyConfig(pairs, i + 1)
               IN IF rest.raised THEN Raised ELSE Returned(m.v \o rest.v)

\* the loop as `for item in raw_cfg[1:]`
DictItems_skip_first(items) ==
  IF items = <<>> THEN <<>> ELSE SelectSeq(Tail(items), IsDict)

\* `for item in raw_cfg`: the dict items, in order (a JSON item has no to_dict)
DictItems(items) == SelectSeq(items, IsDict)

\* the function without its last branch: a configuration of another shape
\* is handed back as it is
_normalize_filters_passthrough(raw_cfg) ==
  IF IsList(raw_cfg) THEN L(DictItems(raw_cfg.items))
  ELSE IF IsDict(raw_cfg)
  THEN LET r == LegacyConfig(raw_cfg.pairs, 1)
       IN IF r.raised THEN L(<<>>) ELSE L(r.v)
  ELSE raw_cfg

\* the list _normalize_filters returns; an exception in the body returns []
_normalize_filters(raw_cfg) ==
  IF IsList(raw_cfg) THEN L(DictItems(raw_cfg.items))
  ELSE IF IsDict(raw_cfg)
  THEN LET r == LegacyConfig(raw_cfg.pairs, 1)
       IN IF r.raised THEN L(<<>>) ELSE L(r.v)
  ELSE L(<<>>)

RECURSIVE json_round_trip(_)
\* json.loads(json.dumps(v)): what save_config_to_db followed by
\* load_config_from_db makes of a value (dict keys are str already)
json_round_trip(v) ==
  CASE IsList(v) -> L([i \in 1..Len(v.items) |-> json_round_trip(v.items[i])])
    [] IsDict(v) ->
         D([i \in 1..Len(v.pairs) |->
              <<v.pairs[i][1], json_round_trip(v.pairs[i][2])>>])
    [] OTHER -> v

\* load_config_from_db finds no row under the name
NoRow == [t |-> "norow"]

\* the service is not running while one function is exercised
UnitFrame ==
  /\ db = NoRow
  /\ FILTER_CONFIG = None
  /\ NORMALIZED_RULES = L(<<>>)
  /\ pc = "unit"
  /\ log_level = "INFO"
  /\ req = [pc |-> "idle"]
  /\ published = None

(***************************************************************************)
(* Inputs of the field resolver: payload trees and field specifiers        *)
(***************************************************************************)
MaxDepth == 2

kK == <<"k">>
kA == <<"a">>
kB == <<"b">>

Leaves == {None, I(1)}

\* a leaf, or a mapping that holds the key k
Small == Leaves \cup {D(<< <<kK, l>> >>) : l \in Leaves}

RECURSIVE Trees(_)
\* payload trees of depth at most n: sequences and mappings of one or two
\* children, at most one of them deeper than Small
Trees(n) ==
  IF n = 0 THEN Leaves
  ELSE LET T == Trees(n - 1)
       IN Leaves
          \cup {L(<<x>>) : x \in T}
          \cup {L(<<s, x>>) : s \in Small, x \in T}
          \cup {L(<<x, s>>) : s \in Small, x \in T}
          \cup {D(<< <<key, x>> >>) : key \in {kK, kA, kB}, x \in T}
          \cup {D(<< <<kA, s>>, <<kB, x>> >>) : s \in Small, x \in T}
          \cup {D(<< <<kA, x>>, <<kB, s>> >>) : s \in Small, x \in T}

Payloads == Trees(MaxDepth)

RECURSIVE Join(_, _)
\* sep.join(parts)
Join(parts, sep) ==
  IF Len(parts) = 1 THEN parts[1]
  ELSE parts[1] \o <<sep>> \o Join(Tail(parts), sep)

\* path segments of the dotted specifiers tried ("a.k", "b.k", "a.a.k",
\* "k.a", "a." and ".k")
SegLists ==
  {<<kA, kK>>, <<kB, kK>>, <<kA, kA, kK>>, <<kK, kA>>, <<kA, <<>>>>, <<<<>>, kK>>}

BareFields == {S(kK), S(kA)}
DottedFields == {S(Join(segs, ".")) : segs \in SegLists}

InitResolve ==
  /\ UnitFrame
  /\ \E d \in Payloads, fld \in BareFields \cup DottedFields \cup {None} :
       call = [fn |-> "_get_field", d |-> d, fld |-> fld, done |-> FALSE, ret |-> None]

ApplyGetField ==
  /\ call.fn = "_get_field"
  /\ ~call.done
  /\ call' = [call EXCEPT !.done = TRUE, !.ret = _get_field(call.d, call.fld)]
  /\ UNCHANGED <<db, FILTER_CONFIG, NORMALIZED_RULES, pc, log_level, req, published>>

NextResolve == ApplyGetField

SpecResolve == InitResolve /\ [][NextResolve]_vars

(***************************************************************************)
(* Inputs of the evaluator and the matcher                                 *)
(***************************************************************************)
MaxInt == 2
MaxRules == 2

EvalOps ==
  {S(s_eq), S(<<"E","Q">>), S(s_neq), S(<<"N","e","q">>), S(s_in), S(<<"I","N">>),
   S(s_nin), S(<<"N","i","n">>), S(<<"n","e">>), S(<<>>), None}

EvalVals ==
  {None, B(TRUE), B(FALSE)}
  \cup {I(n) : n \in 0..MaxInt}
  \cup {S(<<>>), S(<<"a">>), S(<<"a","b">>)}
  \cup {L(<<>>), L(<<I(1), S(<<"a">>)>>), L(<<L(<<I(1)>>)>>)}
  \cup {D(<< <<kA, I(1)>> >>), D(<< <<<<"a","b">>, None>>, <<kA, I(2)>> >>)}

\* rules on the field k: complete, without "value", without "op", without
\* "field"
EvalRules ==
  {D(<< <<k_field, S(kK)>>, <<k_op, op>>, <<k_value, e>> >>) :
     op \in EvalOps, e \in EvalVals}
  \cup {D(<< <<k_field, S(kK)>>, <<k_op, op>> >>) : op \in EvalOps}
  \cup {D(<< <<k_field, S(kK)>>, <<k_value, e>> >>) : e \in EvalVals}
  \cup {D(<< <<k_op, op>>, <<k_value, None>> >>) : op \in EvalOps}

\* payloads that hold k, and one that does not
EvalData ==
  {D(<< <<kK, a>> >>) : a \in EvalVals} \cup {D(<< <<kA, I(1)>> >>)}

MatchRules ==
  {Rule(S(kK), S(s_eq), I(1), None, S(<<"A">>)),
   Rule(S(kK), S(s_eq), I(1), None, S(<<>>)),
   Rule(S(kK), S(<<"E","q">>), I(2), None, S(<<"B">>)),
   D(<< <<k_field, S(kK)>>, <<k_op, S(s_neq)>>, <<k_value, I(2)>> >>),
   Rule(S(kK), S(s_in), I(1), None, S(<<"A">>)),
   Rule(S(kK), S(s_nin), I(1), None, S(<<"B">>)),
   Rule(S(kK), S(<<"g","t">>), I(1), None, S(<<"A">>))}

RECURSIVE SeqsUpTo(_, _)
\* the sequences over S of length at most n
SeqsUpTo(S_, n) ==
  IF n = 0 THEN {<<>>}
  ELSE LET P == SeqsUpTo(S_, n - 1)
       IN P \cup {Append(q, x) : q \in P, x \in S_}

MatchRuleSets == {L(q) : q \in SeqsUpTo(MatchRules, MaxRules)} \cup {None}

MatchData ==
  {D(<< <<kK, I(1)>> >>), D(<< <<kK, I(2)>> >>), D(<< <<kB, I(1)>> >>),
   D(<< <<kA, D(<< <<kK, I(1)>> >>)>> >>), D(<< <<kK, L(<<I(1)>>)>> >>),
   D(<< <<<<"u","s","e","r">>, I(1)>> >>)}

InitMatch ==
  /\ UnitFrame
  /\ \/ \E rule \in EvalRules, data \in EvalData :
          call = [fn |-> "_eval_rule", rule |-> rule, data |-> data,
                  done |-> FALSE, ret |-> Returned(FALSE)]
     \/ \E filters \in MatchRuleSets, data \in MatchData :
          call = [fn |-> "find_matching_filter", filters |-> filters, data |-> data,
                  done |-> FALSE, ret |-> Returned(None)]

ApplyEvalRule ==
  /\ call.fn = "_eval_rule"
  /\ ~call.done
  /\ call' = [call EXCEPT !.done = TRUE, !.ret = _eval_rule(call.rule, call.data)]
  /\ UNCHANGED <<db, FILTER_CONFIG, NORMALIZED_RULES, pc, log_level, req, published>>

ApplyFindMatchingFilter ==
  /\ call.fn = "find_matching_filter"
  /\ ~call.done
  /\ call' = [call EXCEPT !.done = TRUE,
                          !.ret = find_matching_filter(call.data, call.filters)]
  /\ UNCHANGED <<db, FILTER_CONFIG, NORMALIZED_RULES, pc, log_level, req, published>>

NextMatch == ApplyEvalRule \/ ApplyFindMatchingFilter

SpecMatch == InitMatch /\ [][NextMatch]_vars

(***************************************************************************)
(* Inputs of the normaliser: configuration documents                       *)
(***************************************************************************)
MaxEntries == 2

\* marks a key left out of a generated dict
Absent == [t |-> "absent"]

OptPair(key, v) == IF v = Absent THEN <<>> ELSE << <<key, v>> >>

u_A == <<"A">>
u_C == <<"C">>
\* a destination written with backslashes: h:\\b\c
u_backslash == <<"h", ":", "\\", "\\", "b", "\\", "c">>

StrDests == {S(u_A), S(u_backslash), S(<<>>)}

MetaDests ==
  {D(OptPair(k_op, op) \o OptPair(k_api_endpoint, ae) \o OptPair(k_endpoint, ep)
       \o OptPair(k_target, tg) \o OptPair(k_location, loc)) :
     op \in {Absent, None, S(<<"N","E","Q">>), S(s_in), S(<<>>), I(5)},
     ae \in {Absent, S(<<>>), S(u_A)},
     ep \in {Absent, S(<<"B">>)},
     tg \in {Absent, S(<<>>), S(u_C)},
     loc \in {Absent, S(<<"b","o","d","y">>), S(<<>>)}}

\* neither a string nor a mapping
OtherDests == {I(7), None, L(<<S(u_A)>>)}

AllDests == StrDests \cup MetaDests \cup OtherDests

SmallDests ==
  {S(u_A), S(u_backslash), I(7),
   D(<< <<k_op, I(5)>>, <<k_endpoint, S(<<"B">>)>> >>),
   D(<< <<k_op, S(<<"N","E","Q">>)>>, <<k_api_endpoint, S(<<>>)>>,
        <<k_target, S(u_C)>> >>)}

MatchKeys == {<<"x">>, <<"y">>, <<"z">>}

RECURSIVE ValueMaps(_)
\* the pair sequences of mappings of at most n entries with distinct keys
ValueMaps(n) ==
  IF n = 0 THEN {<<>>}
  ELSE LET P == ValueMaps(n - 1)
       IN P \cup {Append(q, <<key, d>>) :
                   q \in {q \in P : Len(q) = n - 1},
                   key \in MatchKeys,
                   d \in SmallDests}

DistinctKeys(pairs) ==
  \A i, j \in 1..Len(pairs) : i # j => pairs[i][1] # pairs[j][1]

kF == <<"f">>
kG == <<"g">>

FieldVals ==
  {D(<< <<<<"x">>, d>> >>) : d \in SmallDests} \cup {S(u_A), D(<<>>)}

LegacyDocs ==
  {D(<< <<kF, D(<< <<<<"x">>, d>> >>)>> >>) : d \in AllDests}
  \cup {D(<< <<kF, D(q)>> >>) : q \in {q \in ValueMaps(MaxEntries) : DistinctKeys(q)}}
  \cup {D(<< <<fs[1], v>>, <<fs[2], w>> >>) :
          fs \in {<<kF, kG>>, <<kG, kF>>}, v \in FieldVals, w \in FieldVals}

ListDocs ==
  {L(<<>>), DEFAULT_CONFIG,
   L(<<Rule(S(kK), S(s_eq), I(1), None, S(u_backslash)), I(1),
       D(<< <<k_field, S(kK)>> >>)>>)}

OtherDocs == {None, I(3), S(u_A), B(TRUE)}

InitNormalize ==
  /\ UnitFrame
  /\ \E raw_cfg \in LegacyDocs \cup ListDocs \cup OtherDocs :
       call = [fn |-> "_normalize_filters", raw_cfg |-> raw_cfg,
               done |-> FALSE, ret |-> None]

ApplyNormalizeFilters ==
  /\ call.fn = "_normalize_filters"
  /\ ~call.done
  /\ call' = [call EXCEPT !.done = TRUE, !.ret = _normalize_filters(call.raw_cfg)]
  /\ UNCHANGED <<db, FILTER_CONFIG, NORMALIZED_RULES, pc, log_level, req, published>>

NextNormalize == ApplyNormalizeFilters

SpecNormalize == InitNormalize /\ [][NextNormalize]_vars

(***************************************************************************)
(* The service: module start, /forward, /health, /config/filter,           *)
(* /config/reload, and the store row named "default"                       *)
(***************************************************************************)
\* load_config_from_db("default") on a store that has the row: the document,
\* or None when the document is falsy.  (Without the row it raises.)
load_config_from_db(row) == IF Truthy(row) THEN row ELSE None

\* the body of the start-up loop `for r in NORMALIZED_RULES` for one rule:
\* the rule with the backslashes of its api_endpoint replaced by '/'
CanonRule(r) ==
  LET ep == Get(r, k_api_endpoint)
  IN IF ~Truthy(ep) THEN Returned(r)
     ELSE LET found == PyIn(S(<<"\\">>), ep)
          IN IF found.raised THEN Raised
             ELSE IF ~found.v THEN Returned(r)
             ELSE IF IsStr(ep)
             THEN Returned(SetItem(r, k_api_endpoint, S(Replace(ep.s, "\\", "/"))))
             ELSE Raised

RECURSIVE CanonRules(_, _)
\* the start-up loop over the rules from rule i on
CanonRules(rules, i) ==
  IF i > Len(rules) THEN Returned(<<>>)
  ELSE LET r == CanonRule(rules[i])
       IN IF r.raised THEN Raised
          ELSE LET rest == CanonRules(rules, i + 1)
               IN IF rest.raised THEN Raised ELSE Returned(<<r.v>> \o rest.v)

\* a list document after the loop: its dict items are the very objects the
\* loop rewrote, its other items are untouched
CanonInPlace(items) ==
  [i \in 1..Len(items) |-> IF IsDict(items[i]) THEN CanonRule(items[i]).v ELSE items[i]]

RECURSIVE UpdateFrom(_, _, _)
\* d.update(other), from pair i of other on
UpdateFrom(d, pairs, i) ==
  IF i > Len(pairs) THEN d
  ELSE UpdateFrom(SetItem(d, pairs[i][1], pairs[i][2]), pairs, i + 1)

NoCall == [fn |-> "none"]

\* the documents the store may hold when the process starts
InitialStores ==
  {NoRow,
   L(<<>>),
   L(<<Rule(S(kK), S(s_eq), I(1), None, S(u_backslash)),
       Rule(S(kK), S(s_eq), I(2), None, S(u_A))>>),
   D(<< <<kF, D(<< <<<<"x">>, S(u_backslash)>> >>)>> >>),
   D(<< <<kK, D(<< <<<<"x">>, S(u_A)>>, <<<<"y">>, S(u_C)>> >>)>> >>),
   L(<<Rule(S(kK), S(s_eq), I(1), None, I(7))>>)}

\* the documents another process may write to the store
ExternalDocs ==
  {L(<<Rule(S(kK), S(s_eq), I(1), None, S(u_C))>>),
   D(<< <<kG, D(<< <<<<"x">>, S(u_backslash)>> >>)>> >>),
   D(<<>>)}

\* bodies of POST /config/filter: Dict[str, Dict[str, str]]
UpdateConfigs ==
  {D(<< <<kF, D(<< <<<<"x">>, S(u_A)>> >>)>> >>),
   D(<< <<kG, D(<< <<<<"y">>, S(u_backslash)>> >>)>> >>),
   D(<< <<kK, D(<< <<<<"x">>, S(<<>>)>> >>)>> >>)}

\* bodies of POST /forward
ForwardBodies ==
  {D(<< <<kK, I(1)>> >>), D(<< <<kK, S(<<"x">>)>> >>), D(<< <<kF, S(<<"x">>)>> >>),
   D(<< <<<<"u","s","e","r">>, I(2)>> >>)}

\* no /forward request is in progress
Idle == [pc |-> "idle"]

\* a request body that is not JSON
NotJson == [t |-> "notjson"]

LogLevels == {"INFO", "DEBUG"}

\* the assignment as `NORMALIZED_RULES.extend(...)`: the list in use grows
Publish_extend(current, rules) == L(current.items \o rules.items)

\* `NORMALIZED_RULES = _normalize_filters(...)`: the name is bound to the
\* new list, the list it was bound to is left as it is
Publish(current, rules) == rules

Init ==
  /\ db \in InitialStores
  /\ FILTER_CONFIG = None
  /\ NORMALIZED_RULES = None
  /\ pc = "boot"
  /\ call = NoCall
  /\ log_level \in LogLevels
  /\ req = Idle
  /\ published = None

\* import of main.py, lines 59-121
Start ==
  /\ pc = "boot"
  /\ IF db = NoRow
     THEN \* load_config_from_db: row is None, row[0] raises TypeError
          /\ pc' = "crashed"
          /\ call' = [fn |-> "start", raised |-> TRUE, stored |-> db]
          /\ UNCHANGED <<db, FILTER_CONFIG, NORMALIZED_RULES, published>>
     ELSE LET cfg == PyOr(load_config_from_db(db), DEFAULT_CONFIG)
              rules == _normalize_filters(cfg)
              canon == CanonRules(rules.items, 1)
          IN IF canon.raised
             THEN /\ pc' = "crashed"
                  /\ db' = cfg
                  /\ FILTER_CONFIG' = cfg
                  /\ NORMALIZED_RULES' = rules
                  /\ call' = [fn |-> "start", raised |-> TRUE, stored |-> db]
                  /\ UNCHANGED published
             ELSE /\ pc' = "running"
                  /\ FILTER_CONFIG' = IF IsList(cfg) THEN L(CanonInPlace(cfg.items))
                                      ELSE cfg
                  /\ NORMALIZED_RULES' = L(canon.v)
                  /\ db' = L(canon.v)
                  /\ call' = [fn |-> "start", raised |-> FALSE, stored |-> db]
                  /\ published' = L(canon.v)
  /\ UNCHANGED <<log_level, req>>

\* the record of a finished /forward request: the rule list it scanned, the
\* rule matched, the URL, whether client.post was called, the HTTP status
Finished(body_data, scan, matched, target_url, posted, status) ==
  [fn |-> "forward_request", at |-> "return", data |-> body_data,
   scan |-> scan, matched |-> matched, target_url |-> target_url,
   posted |-> posted, status |-> status]

\* the scan of find_matching_filter: the list it went through, and the
\* normalize result that was the published one when it did
Scan(rules) == [rules |-> rules, published |-> published]

NoScan == [rules |-> L(<<>>), published |-> L(<<>>)]

\* the handler of /forward is suspended in an await
Awaiting(what) == [fn |-> "forward_request", at |-> what]

\* POST /forward, lines 227-244: the handler runs up to `await payload.json()`
forward_request_receive(body) ==
  /\ pc = "running"
  /\ req = Idle
  /\ req' = [pc |-> "received", body |-> body]
  /\ call' = Awaiting("payload.json")
  /\ UNCHANGED <<db, FILTER_CONFIG, NORMALIZED_RULES, pc, log_level, published>>

\* POST /forward, lines 244-287: the body is decoded, NORMALIZED_RULES is read
\* and scanned, the URL is taken from the matched rule, and the handler
\* either returns (DEBUG) or runs up to `await client.post(target_url, ...)`.
\* The raise for a missing URL is commented out (line 260).
forward_request_match ==
  /\ req.pc = "received"
  /\ IF req.body = NotJson
     THEN \* payload.json() raises, the outer handler answers 500
          /\ call' = Finished(req.body, NoScan, None, None, FALSE, 500)
          /\ req' = Idle
     ELSE LET m == find_matching_filter(req.body, NORMALIZED_RULES)
              matched == m.v
              target_url == IF Truthy(matched) THEN Get(matched, k_api_endpoint)
                            ELSE None
          IN IF m.raised
             THEN \* an error of the scan reaches the outer handler: 500
                  /\ call' = Finished(req.body, NoScan, None, None, FALSE, 500)
                  /\ req' = Idle
             ELSE IF log_level = "DEBUG"
             THEN /\ call' = Finished(req.body, Scan(NORMALIZED_RULES), matched,
                                      target_url, FALSE, 200)
                  /\ req' = Idle
             ELSE /\ req' = [pc |-> "posting", body |-> req.body,
                             scan |-> Scan(NORMALIZED_RULES), matched |-> matched,
                             target_url |-> target_url]
                  /\ call' = Awaiting("client.post")
  /\ UNCHANGED <<db, FILTER_CONFIG, NORMALIZED_RULES, pc, log_level, published>>

\* POST /forward, lines 289-310: client.post has been called with target_url;
\* the downstream answers and its response is returned, or the call fails
\* and either except clause answers 502.  A URL that is not a non-empty
\* string cannot be sent to.
forward_request_respond(answered) ==
  /\ req.pc = "posting"
  /\ call' = Finished(req.body, req.scan, req.matched, req.target_url, TRUE,
                      IF answered /\ IsStr(req.target_url) /\ Truthy(req.target_url)
                      THEN 200 ELSE 502)
  /\ req' = Idle
  /\ UNCHANGED <<db, FILTER_CONFIG, NORMALIZED_RULES, pc, log_level, published>>

\* GET /health
health_check ==
  /\ pc = "running"
  /\ LET withTarget(r) == Truthy(Get(r, k_api_endpoint))
         rs == SelectSeq(NORMALIZED_RULES.items, withTarget)
     IN call' = [fn |-> "health_check",
                 targets |-> [i \in 1..Len(rs) |-> Get(rs[i], k_api_endpoint)]]
  /\ UNCHANGED <<db, FILTER_CONFIG, NORMALIZED_RULES, pc, log_level, req, published>>

\* POST /config/filter (the handler has no await: it runs in one piece)
update_filter_config(config) ==
  /\ pc = "running"
  /\ LET merged == IF IsDict(FILTER_CONFIG)
                   THEN UpdateFrom(FILTER_CONFIG, config.pairs, 1)
                   ELSE config
     IN /\ FILTER_CONFIG' = merged
        /\ db' = merged
        /\ NORMALIZED_RULES' = Publish(NORMALIZED_RULES, _normalize_filters(merged))
        /\ published' = _normalize_filters(merged)
  /\ call' = [fn |-> "update_filter_config", config |-> config,
              before |-> NORMALIZED_RULES]
  /\ UNCHANGED <<pc, log_level, req>>

\* POST /config/reload: NORMALIZED_RULES is not declared global in the
\* handler, so the assignment to it binds a local name
reload_filter_config ==
  /\ pc = "running"
  /\ IF db = NoRow
     THEN /\ call' = [fn |-> "reload_filter_config", raised |-> TRUE,
                      found |-> FALSE, loaded |-> None]
          /\ UNCHANGED FILTER_CONFIG
     ELSE LET loaded_config == load_config_from_db(db)
          IN IF Truthy(loaded_config)
             THEN /\ FILTER_CONFIG' = loaded_config
                  /\ call' = [fn |-> "reload_filter_config", raised |-> FALSE,
                              found |-> TRUE, loaded |-> loaded_config]
             ELSE /\ call' = [fn |-> "reload_filter_config", raised |-> FALSE,
                              found |-> FALSE, loaded |-> None]
                  /\ UNCHANGED FILTER_CONFIG
  /\ UNCHANGED <<db, NORMALIZED_RULES, pc, log_level, req, published>>

\* another process rewrites or deletes the row "default"
ExternalDbWrite(doc) ==
  /\ pc = "running"
  /\ db # doc
  /\ db' = doc
  /\ call' = [fn |-> "external_write"]
  /\ UNCHANGED <<FILTER_CONFIG, NORMALIZED_RULES, pc, log_level, req, published>>

Receive == \E body \in ForwardBodies \cup {NotJson} : forward_request_receive(body)
Respond == \E answered \in BOOLEAN : forward_request_respond(answered)
Update == \E config \in UpdateConfigs : update_filter_config(config)
External == \E doc \in ExternalDocs \cup {NoRow} : ExternalDbWrite(doc)

Next ==
  \/ Start
  \/ Receive
  \/ forward_request_match
  \/ Respond
  \/ health_check
  \/ Update
  \/ reload_filter_config
  \/ External

Spec == Init /\ [][Next]_vars

(***************************************************************************)
(* Claims about the field resolver, checked under SpecResolve              *)
(***************************************************************************)
RECURSIVE Hits(_, _)
RECURSIVE HitsIn(_, _, _)

HitsIn(children, i, key) ==
  IF i > Len(children) THEN <<>>
  ELSE Hits(children[i], key) \o HitsIn(children, i + 1, key)

\* the values stored under key in the mappings of the tree, in depth-first
\* pre-order: a mapping before its children, children in stored order
Hits(obj, key) ==
  CASE obj.t = "dict" ->
         (IF \E i \in 1..Len(obj.pairs) : obj.pairs[i][1] = key
          THEN <<obj.pairs[CHOOSE i \in 1..Len(obj.pairs) : obj.pairs[i][1] = key][2]>>
          ELSE <<>>)
         \o HitsIn([i \in 1..Len(obj.pairs) |-> obj.pairs[i][2]], 1, key)
    [] obj.t = "list" -> HitsIn(obj.items, 1, key)
    [] OTHER -> <<>>

RECURSIVE PathValue(_, _)
\* the value at the end of the exact path segs from node; None when a node
\* on the way is no mapping or lacks the segment
PathValue(node, segs) ==
  IF segs = <<>> THEN node
  ELSE IF node.t = "dict" /\ (\E i \in 1..Len(node.pairs) : node.pairs[i][1] = Head(segs))
  THEN PathValue(node.pairs[CHOOSE i \in 1..Len(node.pairs) :
                              node.pairs[i][1] = Head(segs)][2], Tail(segs))
  ELSE None

ResolveDone == call.fn = "_get_field" /\ call.done

\* C2: for a specifier with no '.', resolve returns the value under the key in
\* the first mapping that contains it in depth-first pre-order, whatever that
\* value is (null included), and nothing found only if no mapping has the key.
C2_FirstPreorderHit ==
  (ResolveDone /\ call.fld \in BareFields) =>
    LET hits == Hits(call.d, call.fld.s)
    IN call.ret = (IF hits = <<>> THEN None ELSE hits[1])

\* C3: for a specifier with '.', resolve descends from the root one mapping
\* level per segment and returns the value at the end of the exact path; when
\* a node on the way is no mapping or lacks the segment the result is None:
\* no partial result, no recursive search.
C3_ExactPath ==
  (ResolveDone /\ call.fld \in DottedFields) =>
    \A segs \in SegLists :
      Join(segs, ".") = call.fld.s => call.ret = PathValue(call.d, segs)

\* the path a.k breaks after its first segment, while a mapping elsewhere in
\* the tree holds k: the result is None, not that value and not the node at a
C3_Witness ==
  /\ ResolveDone
  /\ call.fld = S(Join(<<kA, kK>>, "."))
  /\ IsDict(call.d)
  /\ Has(call.d, kA)
  /\ PathValue(call.d, <<kA, kK>>) = None
  /\ Hits(call.d, kK) # <<>>
  /\ Hits(call.d, kK)[1] = I(1)
  /\ call.ret = None

(***************************************************************************)
(* Claims about the evaluator and the matcher, checked under SpecMatch     *)
(***************************************************************************)
EvalDone == call.fn = "_eval_rule" /\ call.done
FindDone == call.fn = "find_matching_filter" /\ call.done

\* the operator, expected value and resolved actual value of the evaluated rule
CallOp == Lower(IF Has(call.rule, k_op) /\ Get(call.rule, k_op) # None
                THEN Get(call.rule, k_op).s ELSE <<>>)
CallExpected == Get(call.rule, k_value)
CallActual == _get_field(call.data, Get(call.rule, k_field))

\* expected is a member of actual: an equal element of a sequence, a substring
\* of a string, a key of a mapping; nothing is a member of any other value
Member(expected, actual) ==
  CASE actual.t = "list" ->
         \E i \in 1..Len(actual.items) : PyEq(actual.items[i], expected)
    [] actual.t = "str" ->
         /\ expected.t = "str"
         /\ \E i \in 0..(Len(actual.s) - Len(expected.s)) :
              SubSeq(actual.s, i + 1, i + Len(expected.s)) = expected.s
    [] actual.t = "dict" ->
         /\ expected.t = "str"
         /\ \E i \in 1..Len(actual.pairs) : actual.pairs[i][1] = expected.s
    [] OTHER -> FALSE

\* the membership test of expected against actual can be made without error:
\* actual is a sequence, a string tested for a string, or a mapping tested for
\* a hashable value
MembershipDefined(expected, actual) ==
  \/ actual.t = "list"
  \/ actual.t = "str" /\ expected.t = "str"
  \/ actual.t = "dict" /\ expected.t \notin {"list", "dict"}

FieldUnresolved ==
  /\ Has(call.rule, k_field)
  /\ Hits(call.data, Get(call.rule, k_field).s) = <<>>

\* C5: when the rule's field cannot be resolved in the payload, an EQ rule
\* does not match for any JSON expected value, null included.
C5_EqNeverMatchesMissingField ==
  (EvalDone /\ CallOp = s_eq /\ FieldUnresolved /\ Has(call.rule, k_value)) =>
    call.ret.v = FALSE

\* C6: when the comparison itself errors (IN or NIN against a value that does
\* not support the membership test), the result is false and no error leaves
\* evaluate or match.
C6_ComparisonErrorIsNonMatch ==
  /\ (EvalDone /\ CallOp \in {s_in, s_nin} /\ CallActual # None
        /\ PyIn(CallExpected, CallActual).raised)
       => call.ret = Returned(FALSE)
  /\ FindDone => ~call.ret.raised

\* IN with a number as the actual value
C6_Witness ==
  /\ EvalDone
  /\ CallOp = s_in
  /\ CallActual = I(1)
  /\ CallExpected = I(1)
  /\ call.ret = Returned(FALSE)

\* the rule set scanned by the call (DEFAULT_CONFIG when none is given)
ScannedRules == IF call.filters = None THEN DEFAULT_CONFIG.items ELSE call.filters.items

\* the indices of the rules whose evaluation against the payload is true
TrueIndices == {i \in 1..Len(ScannedRules) : _eval_rule(ScannedRules[i], call.data).v}

\* C1: match returns the lowest-index rule whose evaluation against the payload
\* is true, whether or not its destination is empty, and none exactly when no
\* rule evaluates to true.
C1_FirstTrueRule ==
  FindDone =>
    /\ ~call.ret.raised
    /\ (TrueIndices = {}) <=> (call.ret.v = None)
    /\ TrueIndices # {} =>
         \E i \in TrueIndices :
           /\ \A j \in TrueIndices : i <= j
           /\ call.ret.v = ScannedRules[i]

\* the first true rule has an empty destination and a later true rule has
\* one: the first is returned
C1_Witness ==
  /\ FindDone
  /\ call.filters # None
  /\ Len(ScannedRules) = 2
  /\ TrueIndices = {1, 2}
  /\ ~Truthy(Get(ScannedRules[1], k_api_endpoint))
  /\ Truthy(Get(ScannedRules[2], k_api_endpoint))
  /\ call.ret.v = ScannedRules[1]

(***************************************************************************)
(* Claims about the normaliser, checked under SpecNormalize                *)
(***************************************************************************)
NormalizeDone == call.fn = "_normalize_filters" /\ call.done
LegacyDone == NormalizeDone /\ call.raw_cfg.t = "dict"

RECURSIVE EntriesOfMap(_, _, _)
\* the <<field, matchValue, dest>> of a field's mapping whose dest is a string
\* or a mapping, in key order
EntriesOfMap(field, pairs, i) ==
  IF i > Len(pairs) THEN <<>>
  ELSE (IF pairs[i][2].t \in {"str", "dict"}
        THEN << <<field, pairs[i][1], pairs[i][2]>> >> ELSE <<>>)
       \o EntriesOfMap(field, pairs, i + 1)

RECURSIVE EntriesOfDoc(_, _)
\* the entries of a legacy mapping: fields in outer order, matchValues in
\* inner order
EntriesOfDoc(pairs, i) ==
  IF i > Len(pairs) THEN <<>>
  ELSE (IF pairs[i][2].t = "dict"
        THEN EntriesOfMap(pairs[i][1], pairs[i][2].pairs, 1) ELSE <<>>)
       \o EntriesOfDoc(pairs, i + 1)

CallEntries == EntriesOfDoc(call.raw_cfg.pairs, 1)

DestAliases == <<k_api_endpoint, k_endpoint, k_target>>

\* the value of the first alias key the mapping holds; None when it holds none
FirstPresent(dest) ==
  IF \E i \in 1..3 : Has(dest, DestAliases[i])
  THEN Item(dest, DestAliases[CHOOSE i \in 1..3 :
                    /\ Has(dest, DestAliases[i])
                    /\ \A j \in 1..(i - 1) : ~Has(dest, DestAliases[j])])
  ELSE None

\* the first alias value that is non-empty (truthy); when none is, what the
\* mapping holds under target (None when it has no target)
FirstNonEmpty(dest) ==
  IF \E i \in 1..3 : Truthy(Get(dest, DestAliases[i]))
  THEN Get(dest, DestAliases[CHOOSE i \in 1..3 :
                   /\ Truthy(Get(dest, DestAliases[i]))
                   /\ \A j \in 1..(i - 1) : ~Truthy(Get(dest, DestAliases[j]))])
  ELSE Get(dest, k_target)

\* the entry's op, when it has one that is not null, is a string
OpIsString(e) ==
  e[3].t = "dict" => Get(e[3], k_op).t \in {"none", "str"}

\* the entry's op is a string, or is missing, null or otherwise empty
OpConvertible(e) ==
  e[3].t = "dict" => (~Truthy(Get(e[3], k_op)) \/ Get(e[3], k_op).t = "str")

\* rule r is the rule C7 states for entry e
RuleAsStated(r, e) ==
  /\ Get(r, k_field) = S(e[1])
  /\ Get(r, k_value) = S(e[2])
  /\ IF e[3].t = "str"
     THEN /\ Get(r, k_op) = S(s_eq)
          /\ Get(r, k_api_endpoint) = e[3]
     ELSE /\ Get(r, k_op) = (IF Get(e[3], k_op).t = "str"
                             THEN S(Lower(Get(e[3], k_op).s))
                             ELSE IF Get(e[3], k_op) = None THEN S(s_eq)
                             ELSE Get(e[3], k_op))
          /\ Get(r, k_api_endpoint) = FirstPresent(e[3])
          /\ Get(r, k_location) = Get(e[3], k_location)

\* rule r is the rule the amended C7 states for entry e
RuleAsAmended(r, e) ==
  /\ Get(r, k_field) = S(e[1])
  /\ Get(r, k_value) = S(e[2])
  /\ IF e[3].t = "str"
     THEN /\ Get(r, k_op) = S(s_eq)
          /\ Get(r, k_api_endpoint) = e[3]
     ELSE /\ Get(r, k_op) = (IF Truthy(Get(e[3], k_op))
                             THEN S(Lower(Get(e[3], k_op).s))
                             ELSE S(s_eq))
          /\ Get(r, k_api_endpoint) = FirstNonEmpty(e[3])
          /\ Get(r, k_location) = (IF Truthy(Get(e[3], k_location))
                                   THEN Get(e[3], k_location) ELSE None)

\* C7 as stated: one rule per (field, matchValue) pair whose dest is a string
\* or a mapping, in key iteration order; a string dest gives operator eq, value
\* matchValue, destination dest; a mapping dest gives its op in lower case (eq
\* when not specified), the first non-absent of api_endpoint, endpoint, target,
\* and its location.  Stated for the mappings whose ops are strings or null:
\* on an op of another type the conversion stops altogether (C8).
C7_LegacyRules ==
  (LegacyDone /\ \A i \in 1..Len(CallEntries) : OpIsString(CallEntries[i])) =>
    /\ Len(call.ret.items) = Len(CallEntries)
    /\ \A i \in 1..Len(CallEntries) : RuleAsStated(call.ret.items[i], CallEntries[i])

\* C7 as amended: for a legacy mapping whose ops are strings where given, as
\* stated, except that an op that is missing, null or empty gives eq, the
\* destination is the first non-empty of the api_endpoint, endpoint, target
\* values (else what is under target), and an empty location gives null.
C7_LegacyRulesAmended ==
  (LegacyDone /\ \A i \in 1..Len(CallEntries) : OpConvertible(CallEntries[i])) =>
    /\ Len(call.ret.items) = Len(CallEntries)
    /\ \A i \in 1..Len(CallEntries) : RuleAsAmended(call.ret.items[i], CallEntries[i])

\* a string dest and a mapping dest with an upper-case op, an empty
\* api_endpoint and a target, under one field: two rules in key order
C7_Witness ==
  /\ LegacyDone
  /\ Len(CallEntries) = 2
  /\ CallEntries[1][3] = S(u_A)
  /\ CallEntries[2][3].t = "dict"
  /\ Get(CallEntries[2][3], k_op) = S(<<"N","E","Q">>)
  /\ Get(CallEntries[2][3], k_api_endpoint) = S(<<>>)
  /\ Len(call.ret.items) = 2
  /\ Get(call.ret.items[1], k_api_endpoint) = S(u_A)
  /\ Get(call.ret.items[2], k_op) = S(s_neq)
  /\ Get(call.ret.items[2], k_api_endpoint) = S(u_C)

RECURSIVE FieldsAndValues(_)
FieldsAndValues(rules) ==
  IF rules = <<>> THEN <<>>
  ELSE << <<Get(Head(rules), k_field), Get(Head(rules), k_value)>> >>
       \o FieldsAndValues(Tail(rules))

RECURSIVE EntryFieldsAndValues(_)
EntryFieldsAndValues(entries) ==
  IF entries = <<>> THEN <<>>
  ELSE << <<S(Head(entries)[1]), S(Head(entries)[2])>> >>
       \o EntryFieldsAndValues(Tail(entries))

\* C8: when the conversion of one entry of a legacy mapping fails (its op is
\* not a string), only that entry is skipped: every other convertible entry
\* still appears in the returned rule set, in order.
C8_OnlyFailingEntrySkipped ==
  LegacyDone =>
    FieldsAndValues(call.ret.items)
      = EntryFieldsAndValues(SelectSeq(CallEntries, OpConvertible))

\* C12: normalize is total on the shape of the configuration: for a raw
\* configuration that is neither a list nor a mapping (null, a number, a
\* boolean, a string) it returns the empty RuleSet, and it does not raise.
C12_OtherShapeIsEmpty ==
  (NormalizeDone /\ ~IsList(call.raw_cfg) /\ ~IsDict(call.raw_cfg)) =>
    call.ret = L(<<>>)

C12_Witness ==
  /\ NormalizeDone
  /\ call.raw_cfg = S(u_A)
  /\ call.ret = L(<<>>)

\* C13: normalization is idempotent and keeps the order: for every document
\* x in list form or in legacy form, normalizing the document form of
\* normalize(x) (the rule list as it is stored and loaded again) gives
\* normalize(x) again, rule for rule in the same order.
C13_NormalizeIdempotent ==
  (NormalizeDone /\ (IsList(call.raw_cfg) \/ IsDict(call.raw_cfg))) =>
    _normalize_filters(json_round_trip(call.ret)) = call.ret

\* a legacy document of two fields and a list document with items that are
\* not rules: both give two or more distinct rules
C13_Witness ==
  /\ NormalizeDone
  /\ \/ IsDict(call.raw_cfg) /\ Len(call.raw_cfg.pairs) = 2
     \/ IsList(call.raw_cfg) /\ Len(call.raw_cfg.items) = 3
  /\ Len(call.ret.items) >= 2
  /\ call.ret.items[1] # call.ret.items[2]
  /\ _normalize_filters(json_round_trip(call.ret)) = call.ret

(***************************************************************************)
(* Claims about the running service, checked under Spec                    *)
(***************************************************************************)
HasBackslash(v) == v.t = "str" /\ \E i \in 1..Len(v.s) : v.s[i] = "\\"

\* C9: after process start and after any sequence of config-update and
\* config-reload operations, no rule of the active RuleSet has a destination
\* containing a backslash.
C9_NoBackslashDestination ==
  pc = "running" =>
    \A i \in 1..Len(NORMALIZED_RULES.items) :
      ~HasBackslash(Get(NORMALIZED_RULES.items[i], k_api_endpoint))

\* C10: after a config-reload that finds a 'default' document in the store,
\* the active RuleSet (the one forward requests match against and the health
\* endpoint reports) is normalize of that loaded document.
C10_ReloadReplacesActiveRules ==
  (call.fn = "reload_filter_config" /\ call.found) =>
    NORMALIZED_RULES = _normalize_filters(call.loaded)

\* the rules of the rule set whose field is not a key of the update
RulesOfOtherFields(rules, config) ==
  LET other(r) == IsStr(Get(r, k_field)) /\ ~Has(config, Get(r, k_field).s)
  IN SelectSeq(rules.items, other)

UpdateDone == call.fn = "update_filter_config"

\* C11: config-update merges the supplied document into the active
\* configuration document before re-normalizing: after update(config) every
\* rule that was active before the update and whose field is not a key of
\* config is still in the active RuleSet, whether the active document was in
\* list form or in legacy-mapping form, and the document persisted under
\* 'default' is the merged document.
C11_UpdateKeepsOtherFields ==
  UpdateDone =>
    /\ \A i \in 1..Len(RulesOfOtherFields(call.before, call.config)) :
         \E j \in 1..Len(NORMALIZED_RULES.items) :
           NORMALIZED_RULES.items[j] = RulesOfOtherFields(call.before, call.config)[i]
    /\ db = FILTER_CONFIG

StartDone == call.fn = "start"

\* a stored document as the start-up code leaves it in FILTER_CONFIG: the
\* rules of a list document have had their destinations rewritten
AsActivated(doc) == IF IsList(doc) THEN L(CanonInPlace(doc.items)) ELSE doc

\* C15: at process start, when the store holds no 'default' document, the
\* load returns absent without raising, the built-in default becomes the
\* active document and is written back under 'default'; when the store holds
\* a 'default' document, that document and not the built-in default becomes
\* the active document.
C15_StartLoadsOrDefaults ==
  StartDone =>
    IF call.stored = NoRow
    THEN /\ ~call.raised
         /\ pc = "running"
         /\ FILTER_CONFIG = DEFAULT_CONFIG
         /\ _normalize_filters(db) = _normalize_filters(DEFAULT_CONFIG)
    ELSE call.raised \/ FILTER_CONFIG = AsActivated(call.stored)

ForwardReturned == call.fn = "forward_request" /\ call.at = "return"

\* the request went through the matcher and got no destination: no rule
\* matched, or the matched rule has an empty or absent api_endpoint
NoDestination(matched) ==
  ~Truthy(matched) \/ ~Truthy(Get(matched, k_api_endpoint))

\* C16: forward issues the outbound call only with the destination of the
\* first matching rule: when no rule matches, or the matched rule has an
\* empty or absent destination, no outbound call is made (in particular
\* none with an absent target URL) and the request ends with an error
\* outcome.
C16_NoCallWithoutDestination ==
  /\ req.pc = "posting" =>
       /\ ~NoDestination(req.matched)
       /\ req.target_url = Get(req.matched, k_api_endpoint)
  /\ (ForwardReturned /\ NoDestination(call.matched)) =>
       /\ ~call.posted
       /\ call.status >= 400

\* a scan went through one whole published rule list and returned the
\* first rule of it that the body satisfies
WholeScan(scan, body, matched) ==
  /\ scan.rules = scan.published
  /\ matched = find_matching_filter(body, scan.published).v

\* C14: under any interleaving of forward requests with config-update and
\* config-reload, each match scans one complete RuleSet that is the whole
\* result of a single normalize call, the one published before or the one
\* published after the update, never a partially built list or a mix of
\* two.  (The list published at start is the normalize result as the
\* start-up loop left it before the first request.)
C14_ScanOfOnePublishedRuleSet ==
  /\ pc = "running" => NORMALIZED_RULES = published
  /\ req.pc = "posting" => WholeScan(req.scan, req.body, req.matched)
  /\ (ForwardReturned /\ call.status # 500) =>
       WholeScan(call.scan, call.data, call.matched)

\* a request matched a rule and is waiting for the downstream while an
\* update publishes a rule list in which its body matches nothing
C14_Witness ==
  /\ req.pc = "posting"
  /\ Truthy(req.matched)
  /\ call.fn = "update_filter_config"
  /\ req.scan.rules = call.before
  /\ NORMALIZED_RULES # call.before
  /\ find_matching_filter(req.body, NORMALIZED_RULES).v = None

====
